---- MODULE Spec2Model ----
(***************************************************************************)
(* Model of the static property initializer transform of                   *)
(* crates/oxc_transformer/src/es2022/class_properties/static_prop.rs.      *)
(*                                                                         *)
(* The class under transformation has a sequence of static initializers.   *)
(* Every initializer is an expression tree; the trees are kept in one      *)
(* arena `ast`, in document (pre-)order, a root being a node with parent 0.*)
(* `StaticInitializerVisitor` is a recursive depth-first visitor; its call *)
(* stack is the variable `agenda`.                                         *)
(***************************************************************************)
EXTENDS Integers, Sequences, FiniteSets, TLC

\* Number of AST nodes of the static initializers of the class.
MaxNodes == 3

Nodes == 1..MaxNodes

\* Symbol ids known before the transform runs: the binding of the class name
\* and a second binding with the same name that shadows it in a nested scope.
ClassNameSymbol == 1
ShadowSymbol == 2

----------------------------------------------------------------------------
(* The syntax tree of the static initializers, as the parser and the       *)
(* semantic pass hand it to the transform.                                 *)

LeafKinds == {"ThisExpression", "IdentifierReference"}
\* Nodes that are expressions: they are visited through visit_expression.
\* "PrivateFieldExpression" stands for every form that visit_expression hands
\* to the private-field transform (`object.#prop`, calls, assignments,
\* updates, chains and tagged templates on it); "Other" for every other
\* expression, which is walked by the default visitor.
ExpressionKinds ==
    {"ThisExpression", "IdentifierReference", "DeleteExpression",
     "PrivateFieldExpression", "ArrowFunctionExpression", "Function",
     "Class", "Other"}
\* Nodes that only occur as elements of a class body.
ClassElementKinds == {"PropertyDefinition", "AccessorProperty", "StaticBlock"}
\* Nodes that hold statements.
BodyKinds == {"ArrowFunctionExpression", "Function", "StaticBlock", "TSModuleBlock"}

RoleRank(r) == CASE r = "decorator" -> 1 [] r = "key" -> 2 [] r = "value" -> 3 [] OTHER -> 0

\* `binding` is the symbol the semantic pass resolved an identifier to
\* (0: unresolved); it records the state before the rewrite and is never
\* written by the transform.
NodeRec(k, p, r, s) ==
    [kind |-> k, parent |-> p, role |-> r, binding |-> s,
     name |-> IF k = "IdentifierReference" THEN "C" ELSE "",
     reference_id |-> 0, span |-> <<0, 0>>]

RECURSIVE AncestorsOrSelf(_, _)
AncestorsOrSelf(f, n) ==
    IF n = 0 THEN {} ELSE {n} \cup AncestorsOrSelf(f, f[n].parent)

ChildSet(f, p) == {c \in 1..Len(f) : f[c].parent = p}

\* The kinds and roles the next child of p may have in forest f.
\* A key is a child of a property only when the property is computed: a
\* static key holds no expression.
AllowedChildren(f, p) ==
    IF p = 0 THEN ExpressionKinds \X {"child"}
    ELSE LET pk == f[p].kind
             sibs == ChildSet(f, p)
         IN CASE pk \in LeafKinds -> {}
              [] pk \in {"DeleteExpression", "PrivateFieldExpression"} ->
                    IF sibs = {} THEN ExpressionKinds \X {"child"} ELSE {}
              [] pk = "Class" ->
                    (ClassElementKinds \cup {"Function"}) \X {"child"}
              [] pk \in {"PropertyDefinition", "AccessorProperty"} ->
                    ExpressionKinds \X
                      {r \in {"decorator", "key", "value"} :
                         \A s \in sibs : RoleRank(f[s].role) < RoleRank(r)}
              [] pk \in BodyKinds ->
                    (ExpressionKinds \cup {"TSModuleBlock"}) \X {"child"}
              [] OTHER -> ExpressionKinds \X {"child"}

----------------------------------------------------------------------------
(* State.                                                                  *)

VARIABLES
    ast,                \* arena of nodes, in document order (Node Store)
    symbol_names,       \* SymbolId -> name (symbol table)
    references,         \* ReferenceId -> [symbol_id] (0: unresolved)
    resolved_references,\* SymbolId -> Vec<ReferenceId>
    class_bindings,     \* ClassProperties::class_bindings: name, temp (0: None)
    private_props_stack,\* ClassProperties::private_props_stack
    class_has_name_or_private_props, \* StaticInitializerVisitor field
    this_depth,         \* StaticInitializerVisitor field
    agenda,             \* the visitor's pending calls, innermost first
    redirect,           \* locals of replace_class_name_with_temp_var in progress
    initializer,        \* root of the initializer being transformed (0: none yet)
    visit_depth         \* history: this_depth at the visit of each node (-1: not visited)

VARIABLES
    nodes,              \* ctx.nodes(): the linted program's nodes, in document order
    symbols,            \* ctx.symbols(): SymbolId -> name, scope, declaration, kind
    diagnostics,        \* spans given to ctx.diagnostic, in order
    cursor,             \* number of nodes the rule has run on
    reported            \* history: the diagnostics of the earlier runs of the rule

linter == <<nodes, symbols, diagnostics, cursor, reported>>

\* The lint rule is not running.
LinterIdle ==
    /\ nodes = <<>>
    /\ symbols = <<>>
    /\ diagnostics = <<>>
    /\ cursor = 0
    /\ reported = <<>>

VARIABLES
    full,               \* the traversal under way enters every context
    original,           \* history: the tree and the tables before the rewrite
    fast                \* history: the tree and the tables after the rewrite

comparison == <<full, original, fast>>

NoTables ==
    [ast |-> <<>>, symbol_names |-> <<>>, references |-> <<>>,
     resolved_references |-> <<>>]

\* The initializers have been traversed once only, or not yet.
ComparisonIdle ==
    /\ full = FALSE
    /\ original = NoTables
    /\ fast = NoTables

vars ==
    <<ast, symbol_names, references, resolved_references, class_bindings,
      private_props_stack, class_has_name_or_private_props, this_depth,
      agenda, redirect, initializer, visit_depth>>

\* The state of the transformer and of the lint rule.
state == <<vars, linter, comparison>>

tables == <<symbol_names, references, resolved_references>>
bindings == <<class_bindings, private_props_stack>>

NoRedirect == [pc |-> "none", reference_id |-> 0, symbol_id |-> 0, temp |-> 0]

Init ==
    /\ LinterIdle
    /\ ComparisonIdle
    /\ ast = <<>>
    /\ symbol_names = <<"C", "C">>
    /\ references = <<>>
    /\ resolved_references = <<<<>>, <<>>>>
    /\ \E hasName, hasPrivate \in BOOLEAN :
          /\ class_bindings =
                [name |-> IF hasName THEN ClassNameSymbol ELSE 0, temp |-> 0]
          /\ private_props_stack =
                IF hasPrivate
                THEN <<[class_bindings |->
                          [name |-> IF hasName THEN ClassNameSymbol ELSE 0, temp |-> 0]]>>
                ELSE <<>>
    /\ class_has_name_or_private_props = FALSE
    /\ this_depth = 0
    /\ agenda = <<>>
    /\ redirect = NoRedirect
    /\ initializer = 0
    /\ visit_depth = [n \in Nodes |-> -1]

----------------------------------------------------------------------------
(* The parser and the semantic pass: they supply the tree and the tables   *)
(* before the transform runs.                                              *)

\* The symbols an identifier may resolve to: without a class name binding no
\* identifier resolves to it.
Bindings(k) ==
    IF k # "IdentifierReference" THEN {0}
    ELSE IF class_bindings.name # 0 THEN {0, ClassNameSymbol, ShadowSymbol}
         ELSE {0, ShadowSymbol}

\* Spans nest as the nodes do: a new last node extends every ancestor.
AppendNode(f, node) ==
    LET n == Len(f) + 1
        anc == AncestorsOrSelf(f, node.parent)
    IN [m \in 1..n |->
          IF m = n THEN [node EXCEPT !.span = <<n, n + 1>>]
          ELSE IF m \in anc THEN [f[m] EXCEPT !.span = <<f[m].span[1], n + 1>>]
          ELSE f[m]]

\* One more node of the class's static initializers, with its reference.
\* A private field of this class occurs only when the class has private
\* properties.
Parse ==
    /\ UNCHANGED <<linter, comparison>>
    /\ initializer = 0
    /\ Len(ast) < MaxNodes
    /\ \E p \in {0} \cup AncestorsOrSelf(ast, Len(ast)) :
       \E kr \in AllowedChildren(ast, p) :
       \E s \in Bindings(kr[1]) :
          /\ kr[1] = "PrivateFieldExpression" => private_props_stack # <<>>
          /\ LET isRef == kr[1] = "IdentifierReference"
                 rid == Len(references) + 1
                 node == [NodeRec(kr[1], p, kr[2], s) EXCEPT
                            !.reference_id = IF isRef THEN rid ELSE 0]
             IN /\ ast' = AppendNode(ast, node)
                /\ references' =
                      IF isRef THEN Append(references, [symbol_id |-> s]) ELSE references
                /\ resolved_references' =
                      IF isRef /\ s # 0
                      THEN [resolved_references EXCEPT ![s] = Append(@, rid)]
                      ELSE resolved_references
    /\ UNCHANGED <<symbol_names, class_bindings, private_props_stack,
                   class_has_name_or_private_props, this_depth, agenda,
                   redirect, initializer, visit_depth>>

\* `delete` has an operand.
WellFormed(f) ==
    \A n \in 1..Len(f) : f[n].kind = "DeleteExpression" => ChildSet(f, n) # {}

----------------------------------------------------------------------------
(* Collaborators of the transform that live outside static_prop.rs.        *)

\* The u32 value of `this_depth` is written as the integer congruent to it
\* modulo 2^32 of least absolute value, so u32::MAX, the result of a wrapping
\* `0 - 1`, is written -1.
WrappingAdd(d) == d + 1
WrappingSub(d) == d - 1

\* Name of the k-th symbol, which is a temp var: never a name in use.
GenerateUid(k) == IF k = 3 THEN "_C" ELSE "_C" \o ToString(k)

\* ClassBindings::get_or_init_temp_binding on the bindings cb, in the tables
\* (names, rr): the temp symbol is created on first use and memoized.
get_or_init_temp_binding(cb, names, rr) ==
    IF cb.temp # 0
    THEN [cb |-> cb, symbol_names |-> names, resolved_references |-> rr,
          symbol_id |-> cb.temp]
    ELSE LET id == Len(names) + 1
         IN [cb |-> [cb EXCEPT !.temp = id],
             symbol_names |-> Append(names, GenerateUid(id)),
             resolved_references |-> Append(rr, <<>>),
             symbol_id |-> id]

\* Reference::set_symbol_id
set_symbol_id(refs, reference_id, symbol_id) ==
    [refs EXCEPT ![reference_id].symbol_id = symbol_id]

\* SymbolTable::delete_resolved_reference: removes the reference from the
\* symbol's list.
RECURSIVE RemoveFirst(_, _)
RemoveFirst(seq, x) ==
    IF seq = <<>> THEN <<>>
    ELSE IF Head(seq) = x THEN Tail(seq)
    ELSE <<Head(seq)>> \o RemoveFirst(Tail(seq), x)

delete_resolved_reference(rr, symbol_id, reference_id) ==
    [rr EXCEPT ![symbol_id] = RemoveFirst(@, reference_id)]

\* SymbolTable::add_resolved_reference
add_resolved_reference(rr, symbol_id, reference_id) ==
    [rr EXCEPT ![symbol_id] = Append(@, reference_id)]

----------------------------------------------------------------------------
(* The visitor's call stack.                                               *)

VisitTask(n) == [op |-> "visit", node |-> n, saved |-> 0]
\* Visit of the value of a property: `this_depth += 1; visit; this_depth -= 1`.
ValueTask(n) == [op |-> "value", node |-> n, saved |-> 0]
\* The `this_depth -= 1` that ends a context entered at depth d (d is history).
ExitTask(n, d) == [op |-> "exit", node |-> n, saved |-> d]

VisitTasks(ns) == [i \in 1..Len(ns) |-> VisitTask(ns[i])]

\* The children of n, in document order.
Children(n) ==
    SelectSeq([i \in 1..Len(ast) |-> i], LAMBDA c : ast[c].parent = n)
ChildrenInRole(n, r) ==
    SelectSeq([i \in 1..Len(ast) |-> i],
              LAMBDA c : ast[c].parent = n /\ ast[c].role = r)

Top == Head(agenda)
Visiting(kinds) ==
    /\ agenda # <<>>
    /\ redirect.pc = "none"
    /\ Top.op = "visit"
    /\ ast[Top.node].kind \in kinds

Visited(n) == visit_depth' = [visit_depth EXCEPT ![n] = this_depth]

----------------------------------------------------------------------------
(* ClassProperties                                                         *)

\* Variant of get_temp_binding: the bindings of the class are used also when
\* the class has private props.
get_temp_binding_of_class_bindings ==
    LET r == get_or_init_temp_binding(class_bindings, symbol_names,
                                      resolved_references)
    IN [symbol_id |-> r.symbol_id,
        class_bindings |-> r.cb,
        private_props_stack |-> private_props_stack,
        symbol_names |-> r.symbol_names,
        resolved_references |-> r.resolved_references]

\* ClassProperties::get_temp_binding: the bindings of the private props are
\* the source of truth when the class has private props. The result holds the
\* temp symbol's id and the bindings and tables after the call.
get_temp_binding ==
    IF private_props_stack # <<>>
    THEN LET last == Len(private_props_stack)
             r == get_or_init_temp_binding(private_props_stack[last].class_bindings,
                                           symbol_names, resolved_references)
         IN [symbol_id |-> r.symbol_id,
             class_bindings |-> class_bindings,
             private_props_stack |->
                [private_props_stack EXCEPT ![last].class_bindings = r.cb],
             symbol_names |-> r.symbol_names,
             resolved_references |-> r.resolved_references]
    ELSE LET r == get_or_init_temp_binding(class_bindings, symbol_names,
                                           resolved_references)
         IN [symbol_id |-> r.symbol_id,
             class_bindings |-> r.cb,
             private_props_stack |-> private_props_stack,
             symbol_names |-> r.symbol_names,
             resolved_references |-> r.resolved_references]

\* ClassProperties::transform_static_initializer on the next initializer of
\* the class: a new visitor, then visit_expression on the initializer.
NextInitializers ==
    {n \in 1..Len(ast) : ast[n].parent = 0 /\ n > initializer}

transform_static_initializer(value) ==
    /\ class_has_name_or_private_props' =
          (class_bindings.name # 0 \/ private_props_stack # <<>>)
    /\ this_depth' = 0
    /\ agenda' = <<VisitTask(value)>>
    /\ initializer' = value
    /\ UNCHANGED <<ast, tables, bindings, redirect, visit_depth>>

TransformStaticInitializer ==
    /\ UNCHANGED <<linter, comparison>>
    /\ agenda = <<>>
    /\ NextInitializers # {}
    /\ WellFormed(ast)
    /\ transform_static_initializer(
          CHOOSE n \in NextInitializers : \A m \in NextInitializers : n <= m)

----------------------------------------------------------------------------
(* StaticInitializerVisitor: the replacements.                             *)

\* BoundIdentifier::create_spanned_read_expression: an identifier that reads
\* the temp var, with a new reference to it.
create_spanned_read_expression(node, span, name, reference_id) ==
    [node EXCEPT !.kind = "TempVarRead", !.span = span, !.name = name,
                 !.reference_id = reference_id]

\* Variant of replace_this_with_temp_var: `this` is replaced at any depth.
replace_this_at_any_depth(n, span) ==
    LET temp_binding == get_temp_binding
        id == temp_binding.symbol_id
        rid == Len(references) + 1
    IN /\ ast' = [ast EXCEPT ![n] =
                    create_spanned_read_expression(
                       @, span, temp_binding.symbol_names[id], rid)]
       /\ references' = Append(references, [symbol_id |-> id])
       /\ resolved_references' =
             add_resolved_reference(temp_binding.resolved_references, id, rid)
       /\ symbol_names' = temp_binding.symbol_names
       /\ class_bindings' = temp_binding.class_bindings
       /\ private_props_stack' = temp_binding.private_props_stack

\* Variant of replace_this_with_temp_var: `this` is replaced only inside a
\* nested context.
replace_this_in_nested_context(n, span) ==
    IF this_depth # 0
    THEN LET temp_binding == get_temp_binding
             id == temp_binding.symbol_id
             rid == Len(references) + 1
         IN /\ ast' = [ast EXCEPT ![n] =
                         create_spanned_read_expression(
                            @, span, temp_binding.symbol_names[id], rid)]
            /\ references' = Append(references, [symbol_id |-> id])
            /\ resolved_references' =
                  add_resolved_reference(temp_binding.resolved_references, id, rid)
            /\ symbol_names' = temp_binding.symbol_names
            /\ class_bindings' = temp_binding.class_bindings
            /\ private_props_stack' = temp_binding.private_props_stack
    ELSE UNCHANGED <<ast, tables, bindings>>

\* Replace `this` with reference to temp var for class.
replace_this_with_temp_var(n, span) ==
    IF this_depth = 0
    THEN LET temp_binding == get_temp_binding
             id == temp_binding.symbol_id
             rid == Len(references) + 1
         IN /\ ast' = [ast EXCEPT ![n] =
                         create_spanned_read_expression(
                            @, span, temp_binding.symbol_names[id], rid)]
            /\ references' = Append(references, [symbol_id |-> id])
            /\ resolved_references' =
                  add_resolved_reference(temp_binding.resolved_references, id, rid)
            /\ symbol_names' = temp_binding.symbol_names
            /\ class_bindings' = temp_binding.class_bindings
            /\ private_props_stack' = temp_binding.private_props_stack
    ELSE UNCHANGED <<ast, tables, bindings>>

\* Variant of replace_delete_this_with_true: the temp binding is created
\* before `delete this` is replaced.
replace_delete_this_with_temp_binding(n, span) ==
    IF this_depth = 0
    THEN LET temp_binding == get_temp_binding
         IN /\ ast' = [ast EXCEPT ![n].kind = "BooleanLiteralTrue", ![n].span = span]
            /\ symbol_names' = temp_binding.symbol_names
            /\ resolved_references' = temp_binding.resolved_references
            /\ class_bindings' = temp_binding.class_bindings
            /\ private_props_stack' = temp_binding.private_props_stack
            /\ UNCHANGED references
    ELSE UNCHANGED <<ast, tables, bindings>>

\* Replace `delete this` with `true`.
replace_delete_this_with_true(n, span) ==
    /\ IF this_depth = 0
       THEN ast' = [ast EXCEPT ![n].kind = "BooleanLiteralTrue", ![n].span = span]
       ELSE UNCHANGED ast
    /\ UNCHANGED <<tables, bindings>>

\* Variant of replace_class_name_with_temp_var: the class name is replaced
\* only where `this` is, outside all nested contexts.
replace_class_name_at_depth_zero(n) ==
    LET class_name_symbol_id == class_bindings.name
        reference_id == ast[n].reference_id
        symbol_id == references[reference_id].symbol_id
    IN IF \/ class_name_symbol_id = 0
          \/ symbol_id = 0
          \/ symbol_id # class_name_symbol_id
          \/ this_depth # 0
       THEN /\ agenda' = Tail(agenda)
            /\ UNCHANGED <<ast, tables, bindings, redirect>>
       ELSE LET temp_binding == get_temp_binding
                id == temp_binding.symbol_id
            IN /\ ast' = [ast EXCEPT ![n].name = temp_binding.symbol_names[id]]
               /\ symbol_names' = temp_binding.symbol_names
               /\ resolved_references' = temp_binding.resolved_references
               /\ class_bindings' = temp_binding.class_bindings
               /\ private_props_stack' = temp_binding.private_props_stack
               /\ redirect' = [pc |-> "set_symbol_id", reference_id |-> reference_id,
                               symbol_id |-> symbol_id, temp |-> id]
               /\ UNCHANGED <<references, agenda>>

\* Variant of replace_class_name_with_temp_var: the reference is redirected
\* and the identifier keeps its name.
replace_class_name_keeping_name(n) ==
    LET class_name_symbol_id == class_bindings.name
        reference_id == ast[n].reference_id
        symbol_id == references[reference_id].symbol_id
    IN IF \/ class_name_symbol_id = 0
          \/ symbol_id = 0
          \/ symbol_id # class_name_symbol_id
       THEN /\ agenda' = Tail(agenda)
            /\ UNCHANGED <<ast, tables, bindings, redirect>>
       ELSE LET temp_binding == get_temp_binding
                id == temp_binding.symbol_id
            IN /\ symbol_names' = temp_binding.symbol_names
               /\ resolved_references' = temp_binding.resolved_references
               /\ class_bindings' = temp_binding.class_bindings
               /\ private_props_stack' = temp_binding.private_props_stack
               /\ redirect' = [pc |-> "set_symbol_id", reference_id |-> reference_id,
                               symbol_id |-> symbol_id, temp |-> id]
               /\ UNCHANGED <<ast, references, agenda>>

\* Replace reference to class name with reference to temp var for class: the
\* checks, the renaming of the identifier, and the first of the table updates
\* pending.
replace_class_name_with_temp_var(n) ==
    LET class_name_symbol_id == class_bindings.name
        reference_id == ast[n].reference_id
        symbol_id == references[reference_id].symbol_id
    IN IF \/ class_name_symbol_id = 0
          \/ symbol_id = 0
          \/ symbol_id # class_name_symbol_id
       THEN /\ agenda' = Tail(agenda)
            /\ UNCHANGED <<ast, tables, bindings, redirect>>
       ELSE LET temp_binding == get_temp_binding
                id == temp_binding.symbol_id
            IN /\ ast' = [ast EXCEPT ![n].name = temp_binding.symbol_names[id]]
               /\ symbol_names' = temp_binding.symbol_names
               /\ resolved_references' = temp_binding.resolved_references
               /\ class_bindings' = temp_binding.class_bindings
               /\ private_props_stack' = temp_binding.private_props_stack
               /\ redirect' = [pc |-> "set_symbol_id", reference_id |-> reference_id,
                               symbol_id |-> symbol_id, temp |-> id]
               /\ UNCHANGED <<references, agenda>>

\* Variant of redirect_set_symbol_id: the reference keeps the symbol id it had.
redirect_keep_symbol_id ==
    /\ references' = set_symbol_id(references, redirect.reference_id, redirect.symbol_id)
    /\ redirect' = [redirect EXCEPT !.pc = "delete_resolved_reference"]
    /\ UNCHANGED <<resolved_references, agenda>>

\* `symbols.get_reference_mut(reference_id).set_symbol_id(temp_binding.symbol_id)`
redirect_set_symbol_id ==
    /\ references' = set_symbol_id(references, redirect.reference_id, redirect.temp)
    /\ redirect' = [redirect EXCEPT !.pc = "delete_resolved_reference"]
    /\ UNCHANGED <<resolved_references, agenda>>

\* Variant of redirect_delete_resolved_reference: the reference is deleted
\* from the list of the temp symbol, not from the list of the class name.
redirect_delete_from_temp ==
    /\ resolved_references' =
          delete_resolved_reference(resolved_references, redirect.temp,
                                    redirect.reference_id)
    /\ redirect' = [redirect EXCEPT !.pc = "add_resolved_reference"]
    /\ UNCHANGED <<references, agenda>>

\* `symbols.delete_resolved_reference(symbol_id, reference_id)`
redirect_delete_resolved_reference ==
    /\ resolved_references' =
          delete_resolved_reference(resolved_references, redirect.symbol_id,
                                    redirect.reference_id)
    /\ redirect' = [redirect EXCEPT !.pc = "add_resolved_reference"]
    /\ UNCHANGED <<references, agenda>>

\* `symbols.add_resolved_reference(temp_binding.symbol_id, reference_id)`, and
\* the return to the caller.
redirect_add_resolved_reference ==
    /\ resolved_references' =
          add_resolved_reference(resolved_references, redirect.temp,
                                 redirect.reference_id)
    /\ redirect' = NoRedirect
    /\ agenda' = Tail(agenda)
    /\ UNCHANGED references

\* The private-field transform, which visit_expression calls before it walks
\* the expression: a field that is a static private prop of this class is
\* read through the class's temp var; any other field needs no temp var.
\* In a class without private props the field is a prop of an enclosing
\* class: it is not valid outside the class body, and a helper call replaces
\* it.
transform_private_field_expression(n) ==
    \/ /\ private_props_stack # <<>>
       /\ UNCHANGED <<ast, tables, bindings>>
    \/ /\ private_props_stack = <<>>
       /\ ast' = [ast EXCEPT ![n].kind = "ClassPrivateFieldGet"]
       /\ UNCHANGED <<tables, bindings>>
    \/ /\ private_props_stack # <<>>
       /\ LET last == Len(private_props_stack)
              r == get_or_init_temp_binding(
                      private_props_stack[last].class_bindings,
                      symbol_names, resolved_references)
              rid == Len(references) + 1
          IN /\ ast' = [ast EXCEPT ![n].kind = "AssertClassBrand",
                                   ![n].name = r.symbol_names[r.symbol_id],
                                   ![n].reference_id = rid]
             /\ references' = Append(references, [symbol_id |-> r.symbol_id])
             /\ resolved_references' =
                   add_resolved_reference(r.resolved_references, r.symbol_id, rid)
             /\ symbol_names' = r.symbol_names
             /\ private_props_stack' =
                   [private_props_stack EXCEPT ![last].class_bindings = r.cb]
             /\ UNCHANGED class_bindings

----------------------------------------------------------------------------
(* StaticInitializerVisitor: the visitor methods. Each says what happens   *)
(* to this_depth and to the pending calls; walking a node is the visit of  *)
(* its children in document order.                                         *)

Walk(n) == VisitTasks(Children(n)) \o Tail(agenda)

\* Variant of visit_function: `this_depth` is not decremented on exit.
visit_function_without_decrement(n) ==
    IF class_has_name_or_private_props
    THEN /\ this_depth' = WrappingAdd(this_depth)
         /\ agenda' = VisitTasks(Children(n)) \o Tail(agenda)
    ELSE /\ agenda' = Tail(agenda)
         /\ UNCHANGED this_depth

\* Variant of visit_function: the function is entered whether or not the
\* class has a name or private props.
visit_function_in_any_class(n) ==
    /\ this_depth' = WrappingAdd(this_depth)
    /\ agenda' = VisitTasks(Children(n)) \o <<ExitTask(n, this_depth)>>
                    \o Tail(agenda)

\* Contexts with their own `this`: entered only if the class has a name or
\* private props.
visit_function(n) ==
    IF class_has_name_or_private_props
    THEN /\ this_depth' = WrappingAdd(this_depth)
         /\ agenda' = VisitTasks(Children(n)) \o <<ExitTask(n, this_depth)>>
                         \o Tail(agenda)
    ELSE /\ agenda' = Tail(agenda)
         /\ UNCHANGED this_depth

visit_static_block(n) ==
    IF class_has_name_or_private_props
    THEN /\ this_depth' = WrappingAdd(this_depth)
         /\ agenda' = VisitTasks(Children(n)) \o <<ExitTask(n, this_depth)>>
                         \o Tail(agenda)
    ELSE /\ agenda' = Tail(agenda)
         /\ UNCHANGED this_depth

visit_ts_module_block(n) ==
    IF class_has_name_or_private_props
    THEN /\ this_depth' = WrappingAdd(this_depth)
         /\ agenda' = VisitTasks(Children(n)) \o <<ExitTask(n, this_depth)>>
                         \o Tail(agenda)
    ELSE /\ agenda' = Tail(agenda)
         /\ UNCHANGED this_depth

\* Variant of visit_property_definition: the value is visited in the current
\* `this` context, like the key.
visit_property_definition_value_as_key(n) ==
    /\ agenda' = VisitTasks(ChildrenInRole(n, "decorator"))
                   \o VisitTasks(ChildrenInRole(n, "key"))
                   \o (IF class_has_name_or_private_props
                       THEN VisitTasks(ChildrenInRole(n, "value"))
                       ELSE <<>>)
                   \o Tail(agenda)
    /\ UNCHANGED this_depth

\* Decorators and computed key in the current `this` context, the value in
\* its own.
visit_property_definition(n) ==
    /\ agenda' = VisitTasks(ChildrenInRole(n, "decorator"))
                   \o VisitTasks(ChildrenInRole(n, "key"))
                   \o (IF class_has_name_or_private_props
                       THEN [i \in 1..Len(ChildrenInRole(n, "value")) |->
                               ValueTask(ChildrenInRole(n, "value")[i])]
                       ELSE <<>>)
                   \o Tail(agenda)
    /\ UNCHANGED this_depth

visit_accessor_property(n) ==
    /\ agenda' = VisitTasks(ChildrenInRole(n, "decorator"))
                   \o VisitTasks(ChildrenInRole(n, "key"))
                   \o (IF class_has_name_or_private_props
                       THEN [i \in 1..Len(ChildrenInRole(n, "value")) |->
                               ValueTask(ChildrenInRole(n, "value")[i])]
                       ELSE <<>>)
                   \o Tail(agenda)
    /\ UNCHANGED this_depth

\* `self.this_depth += 1; self.visit_expression(value);` of a property value.
visit_value(n) ==
    /\ this_depth' = WrappingAdd(this_depth)
    /\ agenda' = <<VisitTask(n), ExitTask(n, this_depth)>> \o Tail(agenda)

\* `self.this_depth -= 1;` on leaving a context.
exit_this_context ==
    /\ this_depth' = WrappingSub(this_depth)
    /\ agenda' = Tail(agenda)

\* Variant of visit_arrow_function_expression: an arrow function is entered
\* as a context with its own `this`, like a function.
visit_arrow_function_as_context(n) ==
    IF class_has_name_or_private_props
    THEN /\ this_depth' = WrappingAdd(this_depth)
         /\ agenda' = VisitTasks(Children(n)) \o <<ExitTask(n, this_depth)>>
                         \o Tail(agenda)
    ELSE /\ agenda' = Tail(agenda)
         /\ UNCHANGED this_depth

\* Not overridden by the visitor: the default methods walk the node.
visit_arrow_function_expression(n) ==
    /\ agenda' = Walk(n)
    /\ UNCHANGED this_depth

visit_class(n) ==
    /\ agenda' = Walk(n)
    /\ UNCHANGED this_depth

walk_expression(n) ==
    /\ agenda' = Walk(n)
    /\ UNCHANGED this_depth

\* Transform reference to class name to temp var.
visit_identifier_reference(n) == replace_class_name_with_temp_var(n)

----------------------------------------------------------------------------
(* The steps of the traversal.                                             *)

\* visit_expression, `this`
VisitThisExpression ==
    /\ UNCHANGED <<linter, comparison>>
    /\ Visiting({"ThisExpression"})
    /\ replace_this_with_temp_var(Top.node, ast[Top.node].span)
    /\ agenda' = Tail(agenda)
    /\ Visited(Top.node)
    /\ UNCHANGED <<class_has_name_or_private_props, this_depth, redirect, initializer>>

\* visit_expression, `delete this` and other `delete`
VisitDeleteExpression ==
    /\ UNCHANGED <<linter, comparison>>
    /\ Visiting({"DeleteExpression"})
    /\ LET n == Top.node
           argument == Children(n)[1]
       IN IF ast[argument].kind = "ThisExpression"
          THEN /\ replace_delete_this_with_true(n, ast[n].span)
               /\ agenda' = Tail(agenda)
               /\ UNCHANGED this_depth
          ELSE /\ walk_expression(n)
               /\ UNCHANGED <<ast, tables, bindings>>
    /\ Visited(Top.node)
    /\ UNCHANGED <<class_has_name_or_private_props, redirect, initializer>>

\* visit_expression, the forms handed to the private-field transform
VisitPrivateFieldExpression ==
    /\ UNCHANGED <<linter, comparison>>
    /\ Visiting({"PrivateFieldExpression"})
    /\ transform_private_field_expression(Top.node)
    /\ walk_expression(Top.node)
    /\ Visited(Top.node)
    /\ UNCHANGED <<class_has_name_or_private_props, redirect, initializer>>

\* visit_expression, every other expression
VisitOtherExpression ==
    /\ UNCHANGED <<linter, comparison>>
    /\ Visiting({"Other"})
    /\ walk_expression(Top.node)
    /\ Visited(Top.node)
    /\ UNCHANGED <<ast, tables, bindings, class_has_name_or_private_props,
                   redirect, initializer>>

VisitArrowFunctionExpression ==
    /\ UNCHANGED <<linter, comparison>>
    /\ Visiting({"ArrowFunctionExpression"})
    /\ visit_arrow_function_expression(Top.node)
    /\ Visited(Top.node)
    /\ UNCHANGED <<ast, tables, bindings, class_has_name_or_private_props,
                   redirect, initializer>>

VisitClass ==
    /\ UNCHANGED <<linter, comparison>>
    /\ Visiting({"Class"})
    /\ visit_class(Top.node)
    /\ Visited(Top.node)
    /\ UNCHANGED <<ast, tables, bindings, class_has_name_or_private_props,
                   redirect, initializer>>

VisitIdentifierReference ==
    /\ UNCHANGED <<linter, comparison>>
    /\ Visiting({"IdentifierReference"})
    /\ visit_identifier_reference(Top.node)
    /\ Visited(Top.node)
    /\ UNCHANGED <<class_has_name_or_private_props, this_depth, initializer>>

RedirectSetSymbolId ==
    /\ UNCHANGED <<linter, comparison>>
    /\ redirect.pc = "set_symbol_id"
    /\ redirect_set_symbol_id
    /\ UNCHANGED <<ast, symbol_names, bindings, class_has_name_or_private_props,
                   this_depth, initializer, visit_depth>>

RedirectDeleteResolvedReference ==
    /\ UNCHANGED <<linter, comparison>>
    /\ redirect.pc = "delete_resolved_reference"
    /\ redirect_delete_resolved_reference
    /\ UNCHANGED <<ast, symbol_names, bindings, class_has_name_or_private_props,
                   this_depth, initializer, visit_depth>>

RedirectAddResolvedReference ==
    /\ UNCHANGED <<linter, comparison>>
    /\ redirect.pc = "add_resolved_reference"
    /\ redirect_add_resolved_reference
    /\ UNCHANGED <<ast, symbol_names, bindings, class_has_name_or_private_props,
                   this_depth, initializer, visit_depth>>

VisitFunction ==
    /\ UNCHANGED <<linter, comparison>>
    /\ Visiting({"Function"})
    /\ visit_function(Top.node)
    /\ Visited(Top.node)
    /\ UNCHANGED <<ast, tables, bindings, class_has_name_or_private_props,
                   redirect, initializer>>

VisitStaticBlock ==
    /\ UNCHANGED <<linter, comparison>>
    /\ Visiting({"StaticBlock"})
    /\ visit_static_block(Top.node)
    /\ Visited(Top.node)
    /\ UNCHANGED <<ast, tables, bindings, class_has_name_or_private_props,
                   redirect, initializer>>

VisitTSModuleBlock ==
    /\ UNCHANGED <<linter, comparison>>
    /\ Visiting({"TSModuleBlock"})
    /\ visit_ts_module_block(Top.node)
    /\ Visited(Top.node)
    /\ UNCHANGED <<ast, tables, bindings, class_has_name_or_private_props,
                   redirect, initializer>>

VisitPropertyDefinition ==
    /\ UNCHANGED <<linter, comparison>>
    /\ Visiting({"PropertyDefinition"})
    /\ visit_property_definition(Top.node)
    /\ Visited(Top.node)
    /\ UNCHANGED <<ast, tables, bindings, class_has_name_or_private_props,
                   redirect, initializer>>

VisitAccessorProperty ==
    /\ UNCHANGED <<linter, comparison>>
    /\ Visiting({"AccessorProperty"})
    /\ visit_accessor_property(Top.node)
    /\ Visited(Top.node)
    /\ UNCHANGED <<ast, tables, bindings, class_has_name_or_private_props,
                   redirect, initializer>>

VisitValue ==
    /\ UNCHANGED <<linter, comparison>>
    /\ agenda # <<>>
    /\ Top.op = "value"
    /\ visit_value(Top.node)
    /\ UNCHANGED <<ast, tables, bindings, class_has_name_or_private_props,
                   redirect, initializer, visit_depth>>

ExitThisContext ==
    /\ UNCHANGED <<linter, comparison>>
    /\ agenda # <<>>
    /\ Top.op = "exit"
    /\ exit_this_context
    /\ UNCHANGED <<ast, tables, bindings, class_has_name_or_private_props,
                   redirect, initializer, visit_depth>>

Next ==
    \/ Parse
    \/ TransformStaticInitializer
    \/ VisitThisExpression
    \/ VisitDeleteExpression
    \/ VisitPrivateFieldExpression
    \/ VisitOtherExpression
    \/ VisitArrowFunctionExpression
    \/ VisitClass
    \/ VisitIdentifierReference
    \/ RedirectSetSymbolId
    \/ RedirectDeleteResolvedReference
    \/ RedirectAddResolvedReference
    \/ VisitFunction
    \/ VisitStaticBlock
    \/ VisitTSModuleBlock
    \/ VisitPropertyDefinition
    \/ VisitAccessorProperty
    \/ VisitValue
    \/ ExitThisContext

Spec == Init /\ [][Next]_state

----------------------------------------------------------------------------
(* The traversal that enters every context, run after the traversal of the  *)
(* transform on the same tree and tables.                                   *)

Tables ==
    [ast |-> ast, symbol_names |-> symbol_names, references |-> references,
     resolved_references |-> resolved_references]

\* Every initializer of the class has been transformed.
AllTransformed == initializer # 0 /\ agenda = <<>> /\ NextInitializers = {}

ParseInitializer ==
    /\ ~full
    /\ Parse

\* One more node: a private field that is a prop of an enclosing class, in a
\* class without private props.
ParseOuterPrivateField ==
    /\ ~full
    /\ initializer = 0
    /\ Len(ast) < MaxNodes
    /\ private_props_stack = <<>>
    /\ \E p \in {0} \cup AncestorsOrSelf(ast, Len(ast)) :
       \E kr \in AllowedChildren(ast, p) :
          /\ kr[1] = "PrivateFieldExpression"
          /\ ast' = AppendNode(ast, NodeRec(kr[1], p, kr[2], 0))
    /\ UNCHANGED <<tables, bindings, class_has_name_or_private_props, this_depth,
                   agenda, redirect, initializer, visit_depth>>
    /\ UNCHANGED <<linter, comparison>>

\* transform_static_initializer, with the tree and the tables noted when
\* the first initializer is handed over.
TransformStaticInitializerFast ==
    /\ ~full
    /\ agenda = <<>>
    /\ NextInitializers # {}
    /\ WellFormed(ast)
    /\ transform_static_initializer(
          CHOOSE n \in NextInitializers : \A m \in NextInitializers : n <= m)
    /\ original' = IF initializer = 0 THEN Tables ELSE original
    /\ UNCHANGED <<linter, full, fast>>

\* transform_static_initializer with a visitor that enters every context,
\* as the visitor of a class with a name or private props does.
transform_static_initializer_full(value) ==
    /\ class_has_name_or_private_props' = TRUE
    /\ this_depth' = 0
    /\ agenda' = <<VisitTask(value)>>
    /\ initializer' = value
    /\ UNCHANGED <<ast, tables, bindings, redirect, visit_depth>>

TransformStaticInitializerFull ==
    /\ full
    /\ agenda = <<>>
    /\ NextInitializers # {}
    /\ transform_static_initializer_full(
          CHOOSE n \in NextInitializers : \A m \in NextInitializers : n <= m)
    /\ UNCHANGED <<linter, comparison>>

\* The tree and the tables are put back as they were before the rewrite,
\* for the traversal that enters every context.
TraverseAgain ==
    /\ ~full
    /\ AllTransformed
    /\ full' = TRUE
    /\ fast' = Tables
    /\ ast' = original.ast
    /\ symbol_names' = original.symbol_names
    /\ references' = original.references
    /\ resolved_references' = original.resolved_references
    /\ class_bindings' = [class_bindings EXCEPT !.temp = 0]
    /\ private_props_stack' =
          [k \in 1..Len(private_props_stack) |->
              [private_props_stack[k] EXCEPT !.class_bindings.temp = 0]]
    /\ class_has_name_or_private_props' = FALSE
    /\ this_depth' = 0
    /\ redirect' = NoRedirect
    /\ initializer' = 0
    /\ visit_depth' = [n \in Nodes |-> -1]
    /\ UNCHANGED <<agenda, original, linter>>

CompareNext ==
    \/ ParseInitializer
    \/ ParseOuterPrivateField
    \/ TransformStaticInitializerFast
    \/ TraverseAgain
    \/ TransformStaticInitializerFull
    \/ VisitThisExpression
    \/ VisitDeleteExpression
    \/ VisitPrivateFieldExpression
    \/ VisitOtherExpression
    \/ VisitArrowFunctionExpression
    \/ VisitClass
    \/ VisitIdentifierReference
    \/ RedirectSetSymbolId
    \/ RedirectDeleteResolvedReference
    \/ RedirectAddResolvedReference
    \/ VisitFunction
    \/ VisitStaticBlock
    \/ VisitTSModuleBlock
    \/ VisitPropertyDefinition
    \/ VisitAccessorProperty
    \/ VisitValue
    \/ ExitThisContext

CompareSpec == Init /\ [][CompareNext]_state

----------------------------------------------------------------------------
(* Vocabulary of the properties.                                           *)

\* The kind a node had before the rewrite: each replacement comes from one kind.
OriginalKind(n) ==
    CASE ast[n].kind = "TempVarRead" -> "ThisExpression"
      [] ast[n].kind = "BooleanLiteralTrue" -> "DeleteExpression"
      [] ast[n].kind = "AssertClassBrand" -> "PrivateFieldExpression"
      [] ast[n].kind = "ClassPrivateFieldGet" -> "PrivateFieldExpression"
      [] OTHER -> ast[n].kind

RootOf(n) == CHOOSE r \in AncestorsOrSelf(ast, n) : ast[r].parent = 0

\* transform_static_initializer has returned for the initializer with root r.
Finished(r) == r < initializer \/ (r = initializer /\ agenda = <<>>)

\* n is still part of its initializer: no ancestor was replaced by a literal.
Attached(n) ==
    \A a \in AncestorsOrSelf(ast, n) \ {n} : ast[a].kind # "BooleanLiteralTrue"

\* The number of contexts with their own `this` between the initializer and
\* node n, read off the tree: nested functions, static blocks, module blocks
\* and values of properties and accessors of nested classes.
StructuralDepth(n) ==
    Cardinality({a \in AncestorsOrSelf(ast, n) \ {n} :
                   ast[a].kind \in {"Function", "StaticBlock", "TSModuleBlock"}})
    + Cardinality({a \in AncestorsOrSelf(ast, n) : ast[a].role = "value"})

Count(seq, x) == Cardinality({i \in 1..Len(seq) : seq[i] = x})

\* The symbols created by the transform.
TempSymbols == (ShadowSymbol + 1)..Len(symbol_names)

\* Reference rid is registered with symbol s and with no other symbol, once.
RegisteredOnlyWith(rid, s) ==
    \A sym \in 1..Len(resolved_references) :
        Count(resolved_references[sym], rid) = IF sym = s THEN 1 ELSE 0

\* The temp binding of the class, 0 while there is none: the bindings of the
\* private props hold it when the class has private props.
TempBindingOfClass ==
    IF private_props_stack # <<>>
    THEN private_props_stack[Len(private_props_stack)].class_bindings.temp
    ELSE class_bindings.temp

ClassNameReferences ==
    {n \in 1..Len(ast) :
        ast[n].kind = "IdentifierReference" /\ ast[n].binding = ClassNameSymbol}

----------------------------------------------------------------------------
(* Reference table.                                                        *)

\* C1: once transform_static_initializer has returned for an initializer,
\* every reference in it that resolved to the class name before the rewrite
\* has a temp symbol as its stored symbol id, is in that symbol's list of
\* resolved references, and is not in the list of the class name symbol.
C1_ClassNameReferencesMoved ==
    \A n \in ClassNameReferences :
        Finished(RootOf(n)) =>
            LET rid == ast[n].reference_id
                s == references[rid].symbol_id
            IN /\ s \in TempSymbols
               /\ s = TempBindingOfClass
               /\ Count(resolved_references[s], rid) >= 1
               /\ Count(resolved_references[ClassNameSymbol], rid) = 0

\* A finished initializer held a reference to the class name.
C1_Witness ==
    \E n \in ClassNameReferences :
        /\ Finished(RootOf(n))
        /\ references[ast[n].reference_id].symbol_id \in TempSymbols

----------------------------------------------------------------------------
(* `this` and `delete this`.                                               *)

ThisNodes == {n \in 1..Len(ast) : OriginalKind(n) = "ThisExpression"}

IsDeleteThis(n) ==
    /\ n # 0
    /\ OriginalKind(n) = "DeleteExpression"
    /\ \E c \in ChildSet(ast, n) : OriginalKind(c) = "ThisExpression"

\* C3, as stated: once transform_static_initializer has returned, every
\* `this` of the initializer outside all nested contexts has been replaced by
\* a read of the temp binding.
C3_EveryThisReadsTemp ==
    \A n \in ThisNodes :
        (Finished(RootOf(n)) /\ StructuralDepth(n) = 0) =>
            /\ ast[n].kind = "TempVarRead"
            /\ references[ast[n].reference_id].symbol_id = TempBindingOfClass

\* C3, amended: once transform_static_initializer has returned, no `this`
\* outside all nested contexts remains in the initializer: each has been
\* replaced by a read of the temp binding, except the operand of a
\* `delete this`, which is gone with the `delete this` that `true` replaced.
C3_NoThisRemainsAtDepthZero ==
    \A n \in ThisNodes :
        (Finished(RootOf(n)) /\ StructuralDepth(n) = 0) =>
            IF IsDeleteThis(ast[n].parent)
            THEN /\ ~Attached(n)
                 /\ ast[ast[n].parent].kind = "BooleanLiteralTrue"
            ELSE /\ ast[n].kind = "TempVarRead"
                 /\ TempBindingOfClass # 0
                 /\ references[ast[n].reference_id].symbol_id = TempBindingOfClass
                 /\ ast[n].name = symbol_names[TempBindingOfClass]

\* A finished initializer held a `this` outside all nested contexts.
C3_Witness ==
    \E n \in ThisNodes :
        /\ Finished(RootOf(n))
        /\ StructuralDepth(n) = 0
        /\ ast[n].kind = "TempVarRead"

\* The visitor is about to visit node n of one of the kinds, at a depth
\* other than 0.
VisitingNested(n) ==
    /\ Visiting({"ThisExpression", "DeleteExpression"})
    /\ Top.node = n
    /\ this_depth # 0

\* C4: a `this` or a `delete this` visited while this_depth is not 0 is left
\* as it is, and its visit creates no temp binding and changes no table.
C4_NoRewriteInNestedContext ==
    [][\A n \in 1..Len(ast) :
          (VisitingNested(n) /\ (ast[n].kind = "ThisExpression" \/ IsDeleteThis(n))) =>
              UNCHANGED <<ast, tables, bindings>>]_vars

\* A `this` was visited in a nested context and is still there.
C4_Witness ==
    \E n \in 1..Len(ast) :
        /\ ast[n].kind = "ThisExpression"
        /\ visit_depth[n] > 0

----------------------------------------------------------------------------
(* References to the class name.                                           *)

IdentifierReferences ==
    {n \in 1..Len(ast) : ast[n].kind = "IdentifierReference"}

\* C5: once transform_static_initializer has returned, every identifier of
\* the initializer that resolved to the class name, at whatever depth of
\* nested contexts, resolves to the temp binding; an identifier that resolved
\* to a shadowing symbol, or to none, resolves as before and keeps its name.
C5_ClassNameRedirectedAtAnyDepth ==
    \A n \in IdentifierReferences :
        Finished(RootOf(n)) =>
            LET rid == ast[n].reference_id
            IN IF ast[n].binding = ClassNameSymbol
               THEN /\ TempBindingOfClass # 0
                    /\ references[rid].symbol_id = TempBindingOfClass
               ELSE /\ references[rid].symbol_id = ast[n].binding
                    /\ ast[n].name = "C"
                    /\ \A t \in TempSymbols : Count(resolved_references[t], rid) = 0

\* A finished initializer held a reference to the class name in a nested
\* context with its own `this`.
C5_Witness ==
    \E n \in ClassNameReferences :
        /\ Finished(RootOf(n))
        /\ StructuralDepth(n) > 0
        /\ visit_depth[n] > 0
        /\ references[ast[n].reference_id].symbol_id = TempBindingOfClass

----------------------------------------------------------------------------
(* The temp binding.                                                       *)

\* The nodes the transform rewrote to use the temp var, with the symbol each
\* uses.
Rewritten ==
    {n \in 1..Len(ast) :
        \/ ast[n].kind \in {"TempVarRead", "AssertClassBrand"}
        \/ (ast[n].kind = "IdentifierReference" /\ ast[n].name # "C")}

\* C6: over all initializers of the class and all uses in them, at most one
\* temp symbol is created; once a rewrite has used it there is exactly one,
\* and every rewritten `this`, class name and private field uses that one.
C6_OneTempSymbolPerClass ==
    /\ Cardinality(TempSymbols) <= 1
    /\ Rewritten # {} => Cardinality(TempSymbols) = 1
    /\ \A n \in Rewritten :
          /\ TempBindingOfClass \in TempSymbols
          /\ ast[n].name = symbol_names[TempBindingOfClass]
          /\ (redirect.pc \in {"none", "delete_resolved_reference", "add_resolved_reference"}
                \/ ast[n].reference_id # redirect.reference_id) =>
                references[ast[n].reference_id].symbol_id = TempBindingOfClass

\* Two initializers of the class were rewritten to use the temp var.
C6_Witness ==
    \E n, m \in Rewritten :
        /\ RootOf(n) # RootOf(m)
        /\ Finished(RootOf(n))
        /\ Finished(RootOf(m))
        /\ Cardinality(TempSymbols) = 1

----------------------------------------------------------------------------
(* this_depth.                                                             *)

EntersContext ==
    /\ agenda # <<>>
    /\ \/ Top.op = "value"
       \/ /\ Top.op = "visit"
          /\ ast[Top.node].kind \in {"Function", "StaticBlock", "TSModuleBlock"}

LeavesContext == agenda # <<>> /\ Top.op = "exit"

\* C7: this_depth is never negative, is 0 when a traversal starts and when
\* none is running, changes only by +1 on entering a context with its own
\* `this` and by -1 on leaving one, never from 0 down, and on leaving a
\* context has the value it had on entering it.
C7_ThisDepthIsBalanced ==
    /\ [](this_depth >= 0)
    /\ [](agenda = <<>> => this_depth = 0)
    /\ [][/\ initializer' # initializer => this_depth' = 0
          /\ this_depth' # this_depth =>
                \/ EntersContext /\ this_depth' = this_depth + 1
                \/ /\ LeavesContext
                   /\ this_depth > 0
                   /\ this_depth' = this_depth - 1
          /\ LeavesContext => this_depth' = Top.saved]_vars

\* A traversal that went two contexts deep has finished.
C7_Witness ==
    /\ initializer # 0
    /\ agenda = <<>>
    /\ this_depth = 0
    /\ \E n \in 1..Len(ast) : visit_depth[n] = 2

\* The ancestors of n are all arrow functions.
InsideArrowsOnly(n) ==
    /\ ast[n].parent # 0
    /\ \A a \in AncestorsOrSelf(ast, n) \ {n} :
          ast[a].kind = "ArrowFunctionExpression"

\* C8: an arrow function is no context of its own: what it holds is visited
\* at the depth of the arrow function, and a `this` inside arrow functions
\* only is visited at depth 0 and replaced by a read of the temp binding.
C8_ArrowKeepsThisDepth ==
    /\ \A n \in 1..Len(ast) :
          (ast[n].parent # 0
             /\ ast[ast[n].parent].kind = "ArrowFunctionExpression"
             /\ visit_depth[n] # -1) =>
                visit_depth[n] = visit_depth[ast[n].parent]
    /\ \A n \in ThisNodes :
          (InsideArrowsOnly(n) /\ Finished(RootOf(n))) =>
              /\ visit_depth[n] = 0
              /\ ast[n].kind = "TempVarRead"
              /\ references[ast[n].reference_id].symbol_id = TempBindingOfClass

\* The `this` of `() => () => this` was replaced.
C8_Witness ==
    \E n \in ThisNodes :
        /\ InsideArrowsOnly(n)
        /\ Cardinality(AncestorsOrSelf(ast, n)) = 3
        /\ Finished(RootOf(n))
        /\ ast[n].kind = "TempVarRead"

Properties ==
    {n \in 1..Len(ast) : ast[n].kind \in {"PropertyDefinition", "AccessorProperty"}}

\* C9: the computed key of a property or accessor of a nested class is
\* visited at the depth the property is visited at, so a `this` in a key at
\* depth 0 is replaced; the value is visited one deeper, whenever the visitor
\* enters contexts at all, so a `this` in a value is not replaced.
C9_KeyAtCurrentDepthValueOneDeeper ==
    \A p \in Properties : \A c \in ChildSet(ast, p) :
        /\ (ast[c].role = "key" /\ visit_depth[p] # -1
              /\ (Finished(RootOf(p)) \/ visit_depth[c] # -1)) =>
              /\ visit_depth[c] = visit_depth[p]
              /\ (OriginalKind(c) = "ThisExpression" /\ visit_depth[p] = 0) =>
                    ast[c].kind = "TempVarRead"
        /\ ast[c].role = "value" =>
              /\ visit_depth[c] # -1 => visit_depth[c] = visit_depth[p] + 1
              /\ (Finished(RootOf(p)) /\ visit_depth[p] # -1
                    /\ class_has_name_or_private_props) => visit_depth[c] # -1
              /\ OriginalKind(c) = "ThisExpression" => ast[c].kind = "ThisExpression"

\* A `this` that is the value of a property was visited, one deeper than the
\* property, and is still there.
C9_Witness ==
    \E p \in Properties : \E c \in ChildSet(ast, p) :
        /\ ast[c].role = "value"
        /\ ast[c].kind = "ThisExpression"
        /\ visit_depth[p] = 0
        /\ visit_depth[c] = 1
        /\ Finished(RootOf(p))

\* C10: the visit of a `delete this` at this_depth 0 replaces it by the
\* literal `true` with the span of the whole `delete this`, and changes
\* nothing else of the tree, no table and no binding of the class.
C10_DeleteThisBecomesTrue ==
    [][\A n \in 1..Len(ast) :
          (Visiting({"DeleteExpression"}) /\ Top.node = n /\ IsDeleteThis(n)
             /\ this_depth = 0) =>
              /\ ast'[n].kind = "BooleanLiteralTrue"
              /\ ast'[n].span = ast[n].span
              /\ \A m \in 1..Len(ast) : m # n => ast'[m] = ast[m]
              /\ UNCHANGED <<tables, bindings>>]_vars

\* A `delete this` was replaced and the class has no temp binding.
C10_Witness ==
    \E n \in 1..Len(ast) :
        /\ ast[n].kind = "BooleanLiteralTrue"
        /\ visit_depth[n] = 0
        /\ TempSymbols = {}

----------------------------------------------------------------------------
(* The lint rule no-loop-func.  The linted program is a second tree, with   *)
(* its scopes and symbols; the rule only reads it.                          *)

\* Largest linted program, in nodes, the Program node included.
MaxLintNodes == 6

\* Identifier names of the linted programs.
Names == {"i"}

FunctionKinds == {"Function", "ArrowFunctionExpression"}

\* ForStatement stands for every loop statement.  Its head holds the init
\* clause of a `for` (the left side and the iterated expression of a for-in
\* or for-of); with an empty head it is a `while` or a `do`.  The rule reads
\* the kind of no statement but the Program.
LoopKinds == {"ForStatement"}

ContainerKinds == LoopKinds \cup FunctionKinds \cup {"BlockStatement"}

DeclarationKinds == {"var", "let", "const"}

\* A node of the linted program.  declaration_kind is "" unless the node
\* declares a binding; write is the reference's write flag.  A function is
\* invoked when it is the callee of a call around it (an IIFE); generator
\* stands for `function*` and `async function`.
LintNode(k, p, r, name, dk, w) ==
    [kind |-> k, parent |-> p, role |-> r, name |-> name,
     declaration_kind |-> dk, write |-> w, invoked |-> FALSE, generator |-> FALSE]

ProgramNode == LintNode("Program", 0, "root", "", "", FALSE)

\* The nodes the parser may append under p: statements and expressions of
\* a body; parameters first in a function; in the head of a `for`, before
\* its body, declarations and function expressions.
LintChildren(f, p) ==
    LET pk == f[p].kind
        sibs == ChildSet(f, p)
        containers ==
            {LintNode(k, p, "body", "", "", FALSE) : k \in ContainerKinds}
        declarators ==
            {LintNode("VariableDeclarator", p, "body", n, dk, FALSE) :
                n \in Names, dk \in DeclarationKinds}
        identifiers ==
            {LintNode("IdentifierReference", p, "body", n, "", w) :
                n \in Names, w \in BOOLEAN}
        parameters ==
            IF pk \in FunctionKinds /\ \A s \in sibs : f[s].kind = "FormalParameter"
            THEN {LintNode("FormalParameter", p, "params", n, "param", FALSE) :
                     n \in Names}
            ELSE {}
        head ==
            IF pk = "ForStatement" /\ \A s \in sibs : f[s].role = "head"
            THEN {[c EXCEPT !.role = "head"] :
                     c \in declarators
                           \cup {LintNode("Function", p, "body", "", "", FALSE)}}
            ELSE {}
    IN IF pk \in ContainerKinds \cup {"Program"}
       THEN containers \cup declarators \cup identifiers \cup parameters \cup head
       ELSE {}

\* Span of a node: from its own start to the end of its last descendant.
span(f, n) ==
    [start |-> n,
     end |-> CHOOSE e \in n..Len(f) :
                /\ \A m \in n..e : n \in AncestorsOrSelf(f, m)
                /\ e < Len(f) => n \notin AncestorsOrSelf(f, e + 1)]

\* Scopes.  Scope 2n belongs to node n (a program, a function, a block, the
\* head of a loop); scope 2n+1 is the block of loop n's body.  0: no scope.
scope_id(f, n) ==
    LET p == f[n].parent
    IN IF p = 0 THEN 2 * n
       ELSE IF f[p].kind \in LoopKinds /\ f[n].role = "body" THEN 2 * p + 1
       ELSE 2 * p

get_parent_id(f, scope) ==
    IF scope % 2 = 1 THEN scope - 1
    ELSE IF scope = 2 THEN 0
    ELSE scope_id(f, scope \div 2)

RECURSIVE ScopeAncestors(_, _)
ScopeAncestors(f, scope) ==
    IF scope = 0 THEN <<>>
    ELSE <<scope>> \o ScopeAncestors(f, get_parent_id(f, scope))

IsVarScope(f, scope) ==
    scope % 2 = 0 /\ f[scope \div 2].kind \in FunctionKinds \cup {"Program"}

\* The scopes a `var` declared in scope is hoisted through, the scope that
\* binds it last.
HoistPath(f, scope) ==
    LET chain == ScopeAncestors(f, scope)
        top == CHOOSE k \in 1..Len(chain) :
                  /\ IsVarScope(f, chain[k])
                  /\ \A j \in 1..(k - 1) : ~IsVarScope(f, chain[j])
    IN SubSeq(chain, 1, top)

Range(seq) == {seq[k] : k \in 1..Len(seq)}

\* The symbol table after the declaration by node d (the last node of f):
\* a redeclaration of a `var` or of a parameter by a `var` is the same
\* symbol, declared where it was declared first.
Declare(f, syms, d) ==
    LET node == f[d]
        path == IF node.declaration_kind = "var"
                THEN HoistPath(f, scope_id(f, d))
                ELSE <<scope_id(f, d)>>
        scope == path[Len(path)]
        same == {s \in 1..Len(syms) :
                    syms[s].name = node.name /\ syms[s].scope = scope}
    IN IF same = {}
       THEN Append(syms, [name |-> node.name, scope |-> scope, declaration |-> d,
                          kind |-> node.declaration_kind, through |-> Range(path)])
       ELSE [s \in 1..Len(syms) |->
               IF s \in same
               THEN [syms[s] EXCEPT !.through = @ \cup Range(path)]
               ELSE syms[s]]

\* A declaration the parser rejects: a second binding of the name in a scope
\* where one of the two is `let` or `const`, or a repeated parameter.
Redeclaration(f, syms, d) ==
    LET node == f[d]
        path == IF node.declaration_kind = "var"
                THEN Range(HoistPath(f, scope_id(f, d)))
                ELSE {scope_id(f, d)}
    IN \E s \in 1..Len(syms) :
          /\ syms[s].name = node.name
          /\ IF node.declaration_kind = "var"
             THEN syms[s].kind \in {"let", "const"} /\ syms[s].scope \in path
             ELSE path \cap ({syms[s].scope} \cup syms[s].through) # {}

\* The parser and the semantic pass: one more node of the program, with the
\* symbol it declares.  They run before the rule does.
BuildSemantic ==
    /\ cursor = 0
    /\ reported = <<>>
    /\ Len(nodes) < MaxLintNodes
    /\ \E p \in AncestorsOrSelf(nodes, Len(nodes)) :
       \E node \in LintChildren(nodes, p) :
          LET f == Append(nodes, node)
              d == Len(f)
          IN /\ nodes' = f
             /\ IF node.declaration_kind = ""
                THEN symbols' = symbols
                ELSE /\ ~Redeclaration(f, symbols, d)
                     /\ symbols' = Declare(f, symbols, d)
    /\ UNCHANGED <<diagnostics, cursor, reported>>
    /\ UNCHANGED <<vars, comparison>>

\* The parser, on a function expression invoked in place: `(function(){})()`,
\* or `(function*(){})()` and `(async function(){})()`.
BuildInvokedFunction ==
    /\ cursor = 0
    /\ reported = <<>>
    /\ Len(nodes) < MaxLintNodes
    /\ \E p \in AncestorsOrSelf(nodes, Len(nodes)) : \E g \in BOOLEAN :
          /\ nodes[p].kind \in ContainerKinds \cup {"Program"}
          /\ nodes' = Append(nodes,
                [LintNode("Function", p, "body", "", "", FALSE) EXCEPT
                    !.invoked = TRUE, !.generator = g])
    /\ UNCHANGED <<symbols, diagnostics, cursor, reported>>
    /\ UNCHANGED <<vars, comparison>>

\* ctx.scopes().find_binding: the symbol bound to name in scope or in the
\* nearest scope around it that binds the name (0: None).
RECURSIVE find_binding(_, _, _, _)
find_binding(f, syms, scope, name) ==
    IF scope = 0 THEN 0
    ELSE LET bound == {s \in 1..Len(syms) :
                          syms[s].name = name /\ syms[s].scope = scope}
         IN IF bound # {} THEN CHOOSE s \in bound : TRUE
            ELSE find_binding(f, syms, get_parent_id(f, scope), name)

get_declaration(syms, symbol_id) == syms[symbol_id].declaration

parent_node(f, n) == f[n].parent

\* Variant of get_function: the search goes on to the outermost Function.
RECURSIVE get_function_outermost(_, _)
get_function_outermost(f, n) ==
    IF n = 0 THEN 0
    ELSE LET outer == get_function_outermost(f, parent_node(f, n))
         IN IF outer # 0 THEN outer
            ELSE IF f[n].kind = "Function" THEN n
            ELSE 0

\* get_function: the node itself or its nearest ancestor of kind Function
\* (0: None).
RECURSIVE get_function(_, _)
get_function(f, n) ==
    IF n = 0 THEN 0
    ELSE IF f[n].kind = "Function" THEN n
    ELSE get_function(f, parent_node(f, n))

\* node_span.start <= symbol_span.start && symbol_span.end <= node_span.end
SpanContains(node_span, symbol_span) ==
    node_span.start <= symbol_span.start /\ symbol_span.end <= node_span.end

\* The nodes that the `while let` of get_function binds, in order.
RECURSIVE get_function_visits(_, _)
get_function_visits(f, n) ==
    IF n = 0 THEN <<>>
    ELSE IF f[n].kind = "Function" THEN <<n>>
    ELSE <<n>> \o get_function_visits(f, parent_node(f, n))

\* The nodes that the `while let` of run binds, in order.
RECURSIVE walk_parents_visits(_, _, _)
walk_parents_visits(f, from, symbol_span) ==
    LET node == parent_node(f, from)
    IN IF node = 0 THEN <<>>
       ELSE IF f[node].kind = "Program" THEN <<node>>
       ELSE IF SpanContains(span(f, node), symbol_span) THEN <<node>>
       ELSE <<node>> \o walk_parents_visits(f, node, symbol_span)

\* Variant of walk_parents: only the parent of the function is tested.
walk_parents_once(f, from, symbol_span) ==
    LET node == parent_node(f, from)
    IN IF node = 0 THEN FALSE
       ELSE IF f[node].kind = "Program" THEN FALSE
       ELSE SpanContains(span(f, node), symbol_span)

\* The `while let` of run: TRUE when a parent above from, below the
\* program, spans the declaration.
RECURSIVE walk_parents(_, _, _)
walk_parents(f, from, symbol_span) ==
    LET node == parent_node(f, from)
    IN IF node = 0 THEN FALSE
       ELSE IF f[node].kind = "Program" THEN FALSE
       ELSE IF SpanContains(span(f, node), symbol_span) THEN TRUE
       ELSE walk_parents(f, node, symbol_span)

no_loop_func_diagnostic(function_span, n) == [span |-> function_span, node |-> n]

\* Variant of run: a function that an earlier run of the rule flagged is not
\* flagged again.
run_unless_reported(n) ==
    LET function == get_function(nodes, n)
        symbol == find_binding(nodes, symbols, scope_id(nodes, n), nodes[n].name)
    IN IF function = 0 THEN diagnostics
       ELSE IF symbol = 0 THEN diagnostics
       ELSE IF \E j \in 1..Len(reported) : \E k \in 1..Len(reported[j]) :
                  reported[j][k].span = span(nodes, function)
       THEN diagnostics
       ELSE IF walk_parents(nodes, function,
                            span(nodes, get_declaration(symbols, symbol)))
       THEN Append(diagnostics,
                   no_loop_func_diagnostic(span(nodes, function), n))
       ELSE diagnostics

\* Variant of run: nothing is analysed once a diagnostic was emitted.
run_until_first_diagnostic(n) ==
    LET function == get_function(nodes, n)
        symbol == find_binding(nodes, symbols, scope_id(nodes, n), nodes[n].name)
    IN IF diagnostics # <<>> THEN diagnostics
       ELSE IF function = 0 THEN diagnostics
       ELSE IF symbol = 0 THEN diagnostics
       ELSE IF walk_parents(nodes, function,
                            span(nodes, get_declaration(symbols, symbol)))
       THEN Append(diagnostics,
                   no_loop_func_diagnostic(span(nodes, function), n))
       ELSE diagnostics

\* NoLoopFunc::run on an identifier reference: the diagnostics after it.
\* The entry's node is history: the reference the rule was running on.
run(n) ==
    LET function == get_function(nodes, n)
        symbol == find_binding(nodes, symbols, scope_id(nodes, n), nodes[n].name)
    IN IF function = 0 THEN diagnostics
       ELSE IF symbol = 0 THEN diagnostics
       ELSE IF walk_parents(nodes, function,
                            span(nodes, get_declaration(symbols, symbol)))
       THEN Append(diagnostics,
                   no_loop_func_diagnostic(span(nodes, function), n))
       ELSE diagnostics

\* The linter hands the rule the next node, an identifier reference.
RunIdentifierReference ==
    /\ cursor < Len(nodes)
    /\ nodes[cursor + 1].kind = "IdentifierReference"
    /\ diagnostics' = run(cursor + 1)
    /\ cursor' = cursor + 1
    /\ UNCHANGED <<nodes, symbols, reported>>
    /\ UNCHANGED <<vars, comparison>>

\* The linter hands the rule the next node, of another kind: `_ => {}`.
RunOther ==
    /\ cursor < Len(nodes)
    /\ nodes[cursor + 1].kind # "IdentifierReference"
    /\ cursor' = cursor + 1
    /\ UNCHANGED <<nodes, symbols, diagnostics, reported>>
    /\ UNCHANGED <<vars, comparison>>

\* Runs of the rule on one program.
MaxRuns == 2

\* The linter runs the rule once more on the same tree and tables, with a
\* new context that holds no diagnostics.
RunAgain ==
    /\ cursor = Len(nodes)
    /\ Len(reported) + 1 < MaxRuns
    /\ reported' = Append(reported, diagnostics)
    /\ diagnostics' = <<>>
    /\ cursor' = 0
    /\ UNCHANGED <<nodes, symbols>>
    /\ UNCHANGED <<vars, comparison>>

\* The transformer does not run while a program is linted.
LintInit ==
    /\ nodes = <<ProgramNode>>
    /\ symbols = <<>>
    /\ diagnostics = <<>>
    /\ cursor = 0
    /\ reported = <<>>
    /\ ComparisonIdle
    /\ ast = <<>>
    /\ symbol_names = <<"C", "C">>
    /\ references = <<>>
    /\ resolved_references = <<<<>>, <<>>>>
    /\ class_bindings = [name |-> 0, temp |-> 0]
    /\ private_props_stack = <<>>
    /\ class_has_name_or_private_props = FALSE
    /\ this_depth = 0
    /\ agenda = <<>>
    /\ redirect = NoRedirect
    /\ initializer = 0
    /\ visit_depth = [n \in Nodes |-> -1]

LintNext ==
    \/ BuildSemantic
    \/ RunIdentifierReference
    \/ RunOther

LintSpec == LintInit /\ [][LintNext]_state

\* The rule on programs that also hold functions invoked in place.
LintCallNext ==
    \/ BuildSemantic
    \/ BuildInvokedFunction
    \/ RunIdentifierReference
    \/ RunOther

LintCallSpec == LintInit /\ [][LintCallNext]_state

\* The rule run again on the program.
LintAgainNext ==
    \/ BuildSemantic
    \/ RunIdentifierReference
    \/ RunOther
    \/ RunAgain

LintAgainSpec == LintInit /\ [][LintAgainNext]_state

----------------------------------------------------------------------------
(* Vocabulary of the properties of the lint rule.                           *)

\* The rule has run on every node of the program.
Linted == cursor = Len(nodes)

IdentifierNodes == {n \in 1..Len(nodes) : nodes[n].kind = "IdentifierReference"}

FunctionNodes == {n \in 1..Len(nodes) : nodes[n].kind \in FunctionKinds}

LoopNodes == {n \in 1..Len(nodes) : nodes[n].kind \in LoopKinds}

ProperAncestors(n) == AncestorsOrSelf(nodes, n) \ {n}

\* The nearest function or arrow function around n (0: top-level code).
RECURSIVE NearestFunction(_)
NearestFunction(n) ==
    IF n = 0 THEN 0
    ELSE IF nodes[n].kind \in FunctionKinds THEN n
    ELSE NearestFunction(nodes[n].parent)

\* The symbol reference r resolves to (0: unresolved, a global).
SymbolOf(r) == find_binding(nodes, symbols, scope_id(nodes, r), nodes[r].name)

\* Node n lies in the body of loop l, not in its head.
InBodyOf(n, l) ==
    /\ l \in ProperAncestors(n)
    /\ \E c \in AncestorsOrSelf(nodes, n) :
          nodes[c].parent = l /\ nodes[c].role = "body"

\* Symbol s is declared in the head of loop l.
DeclaredInHeadOf(s, l) ==
    LET d == symbols[s].declaration
    IN nodes[d].parent = l /\ nodes[d].role = "head"

\* A diagnostic spans function fn.
Flagged(fn) ==
    \E k \in 1..Len(diagnostics) : diagnostics[k].span = span(nodes, fn)

\* Reference r, of function fn, to a symbol declared with one of kinds in the
\* head of a loop that has fn in its body.
CapturesLoopVariable(r, fn, kinds) ==
    /\ NearestFunction(r) = fn
    /\ fn # 0
    /\ SymbolOf(r) # 0
    /\ symbols[SymbolOf(r)].kind \in kinds
    /\ \E l \in LoopNodes :
          DeclaredInHeadOf(SymbolOf(r), l) /\ InBodyOf(fn, l)

\* C11: once the rule has run on the program, every function expression or
\* declaration in the body of a loop that references a `var` declared in the
\* head of that loop is flagged.
C11_VarLoopVariableFlagged ==
    Linted =>
       \A r \in IdentifierNodes : \A fn \in FunctionNodes :
          (nodes[fn].kind = "Function" /\ CapturesLoopVariable(r, fn, {"var"}))
             => Flagged(fn)

C11_Witness ==
    /\ Linted
    /\ \E r \in IdentifierNodes : \E fn \in FunctionNodes :
          /\ nodes[fn].kind = "Function"
          /\ CapturesLoopVariable(r, fn, {"var"})
          /\ Flagged(fn)

Descendants(n) == {m \in 1..Len(nodes) : n \in ProperAncestors(m)}

\* The identifier references inside function fn, at any depth.
ReferencesIn(fn) == IdentifierNodes \cap Descendants(fn)

\* The loops that have n in their body, and the innermost of them (0: none).
LoopsAround(n) == {l \in LoopNodes : InBodyOf(n, l)}

InnermostLoop(n) ==
    IF LoopsAround(n) = {} THEN 0
    ELSE CHOOSE l \in LoopsAround(n) : \A m \in LoopsAround(n) : m <= l

\* Symbol s is declared inside node n.
DeclaredIn(s, n) == symbols[s].declaration \in Descendants(n)

\* C12: once the rule has run, a function in the body of a loop whose
\* references all resolve to `let` bindings declared in the head or the body
\* of that loop is not flagged.
C12_LetLoopVariableNotFlagged ==
    Linted =>
       \A fn \in FunctionNodes :
          (/\ InnermostLoop(fn) # 0
           /\ ReferencesIn(fn) # {}
           /\ \A r \in ReferencesIn(fn) :
                 /\ SymbolOf(r) # 0
                 /\ symbols[SymbolOf(r)].kind = "let"
                 /\ DeclaredIn(SymbolOf(r), InnermostLoop(fn)))
             => ~Flagged(fn)

\* C13: no diagnostic is produced on account of a reference to a `const`
\* binding.
C13_NoDiagnosticForConst ==
    \A k \in 1..Len(diagnostics) :
       LET s == SymbolOf(diagnostics[k].node)
       IN s # 0 => symbols[s].kind # "const"

\* The write references to symbol s.
WritesTo(s) == {w \in IdentifierNodes : nodes[w].write /\ SymbolOf(w) = s}

\* The cell of symbol s is shared by the iterations of a loop around fn: a
\* `var` declared in the loop, or a binding declared outside it and
\* reassigned; never a `const`.
SharedAcrossIterations(s, fn) ==
    /\ symbols[s].kind # "const"
    /\ \E l \in LoopsAround(fn) :
          \/ symbols[s].kind = "var" /\ DeclaredIn(s, l)
          \/ ~DeclaredIn(s, l) /\ WritesTo(s) # {}

\* C14: every flagged function contains a reference to a binding declared
\* outside the function whose cell is shared or mutated across the
\* iterations of a loop; a reference to the function's own parameter or
\* local variable does not get it flagged.
C14_FlaggedCapturesSharedOuterBinding ==
    \A fn \in FunctionNodes :
       Flagged(fn) =>
          \E r \in ReferencesIn(fn) :
             /\ SymbolOf(r) # 0
             /\ ~DeclaredIn(SymbolOf(r), fn)
             /\ SharedAcrossIterations(SymbolOf(r), fn)

\* The declaring node of the symbol that reference r resolves to.
DeclarationOf(r) == get_declaration(symbols, SymbolOf(r))

\* C15: a function is flagged only if a loop statement is among its
\* ancestors and spans the declaration of the captured binding; a function
\* with no loop between it and the program is never flagged.
C15_FlaggedOnlyInsideLoop ==
    \A k \in 1..Len(diagnostics) :
       \E fn \in FunctionNodes :
          /\ diagnostics[k].span = span(nodes, fn)
          /\ \E l \in LoopNodes \cap ProperAncestors(fn) :
                SpanContains(span(nodes, l),
                             span(nodes, DeclarationOf(diagnostics[k].node)))

\* C16: the rule emits one diagnostic per offending function, however many
\* unsafe references the function contains: no two diagnostics span the
\* same function.
C16_OneDiagnosticPerFunction ==
    \A j, k \in 1..Len(diagnostics) :
       diagnostics[j].span = diagnostics[k].span => j = k

\* C17: arrow functions are functions to the rule: once the rule has run, an
\* arrow function in the body of a loop that references a `var` declared in
\* the head of that loop is flagged.
C17_ArrowFunctionFlagged ==
    Linted =>
       \A r \in IdentifierNodes : \A fn \in FunctionNodes :
          (/\ nodes[fn].kind = "ArrowFunctionExpression"
           /\ CapturesLoopVariable(r, fn, {"var"}))
             => Flagged(fn)

\* C18: once the rule has run, a function inside a loop that references a
\* `var` or `let` binding declared before the loop is flagged when the
\* binding is reassigned in or after the loop.  Stated of function
\* expressions and declarations, which get_function recognises.
C18_ReassignedOuterBindingFlagged ==
    Linted =>
       \A r \in IdentifierNodes : \A l \in LoopNodes :
          LET fn == NearestFunction(r)
              s == SymbolOf(r)
          IN (/\ fn # 0
              /\ nodes[fn].kind = "Function"
              /\ InBodyOf(fn, l)
              /\ s # 0
              /\ symbols[s].kind \in {"var", "let"}
              /\ symbols[s].declaration < l
              /\ ~DeclaredIn(s, l)
              /\ \E w \in WritesTo(s) : w > l)
                => Flagged(fn)

\* C19: once the rule has run, a function inside a loop whose references
\* all resolve to bindings declared outside the loop and never reassigned is
\* not flagged, at any depth of functions inside the loop.
C19_UnchangedOuterBindingNotFlagged ==
    Linted =>
       \A fn \in FunctionNodes :
          (/\ LoopsAround(fn) # {}
           /\ ReferencesIn(fn) # {}
           /\ \A r \in ReferencesIn(fn) :
                 /\ SymbolOf(r) # 0
                 /\ WritesTo(SymbolOf(r)) = {}
                 /\ \A l \in LoopsAround(fn) : ~DeclaredIn(SymbolOf(r), l))
             => ~Flagged(fn)

\* C20: an unresolved reference and a reference outside every function
\* cause no diagnostic: a function in a loop whose references to bindings
\* declared outside it are all unresolved is not flagged.
C20_UnresolvedAndTopLevelIgnored ==
    /\ \A k \in 1..Len(diagnostics) :
          /\ SymbolOf(diagnostics[k].node) # 0
          /\ NearestFunction(diagnostics[k].node) # 0
    /\ \A fn \in FunctionNodes :
          (/\ LoopsAround(fn) # {}
           /\ \A r \in ReferencesIn(fn) :
                 SymbolOf(r) = 0 \/ DeclaredIn(SymbolOf(r), fn))
             => ~Flagged(fn)

\* C21: once the rule has run, a synchronous function invoked in place is
\* not flagged, even when it reads a `var` loop variable; a generator or
\* async function invoked in place in the body of a loop is flagged when it
\* references a `var` declared in the head of that loop.
C21_InvokedFunctionExempt ==
    Linted =>
       /\ \A fn \in FunctionNodes :
             (nodes[fn].invoked /\ ~nodes[fn].generator) => ~Flagged(fn)
       /\ \A r \in IdentifierNodes : \A fn \in FunctionNodes :
             (/\ nodes[fn].invoked
              /\ nodes[fn].generator
              /\ CapturesLoopVariable(r, fn, {"var"}))
                => Flagged(fn)

\* C22: once the rule has run, a function in the head of a loop (the init
\* clause of a `for`, the iterated expression of a for-in or for-of) that is
\* in the body of no loop is not flagged, even when it references the `var`
\* of that loop.
C22_FunctionInLoopHeadNotFlagged ==
    Linted =>
       \A fn \in FunctionNodes :
          (/\ nodes[fn].role = "head"
           /\ nodes[nodes[fn].parent].kind \in LoopKinds
           /\ LoopsAround(fn) = {})
             => ~Flagged(fn)

----------------------------------------------------------------------------
(* The fast path of the static-initializer visitor.                         *)

\* The class has neither a name nor private props.
NoNameNoPrivateProps == class_bindings.name = 0 /\ private_props_stack = <<>>

ContextKinds == {"Function", "StaticBlock", "TSModuleBlock"}

\* Node n lies inside a function, a static block or a module block.
InsideContext(n) ==
    \E a \in AncestorsOrSelf(ast, n) \ {n} : ast[a].kind \in ContextKinds

\* C23, as stated: in a class with no name and no private props the
\* traversal visits nothing inside functions, static blocks and module
\* blocks, this_depth stays 0, and no step of the traversal changes the
\* tables but for the creation of the one temp symbol.
C23_TablesUnchangedButTempBinding ==
    /\ [](NoNameNoPrivateProps => this_depth = 0)
    /\ [](NoNameNoPrivateProps =>
             \A n \in 1..Len(ast) : InsideContext(n) => visit_depth[n] = -1)
    /\ [][(NoNameNoPrivateProps /\ initializer' # 0) =>
             /\ references' = references
             /\ \A s \in 1..Len(resolved_references) :
                   resolved_references'[s] = resolved_references[s]
             /\ \A s \in (Len(resolved_references) + 1)..Len(resolved_references') :
                   resolved_references'[s] = <<>>
             /\ SubSeq(symbol_names', 1, Len(symbol_names)) = symbol_names
             /\ Len(symbol_names') <= ShadowSymbol + 1]_vars

\* C23: in a class with no name and no private props the traversal visits
\* nothing inside functions, static blocks and module blocks, this_depth
\* stays 0, and a step of the traversal changes the tables only by creating
\* the one temp symbol and by adding references that read it: every
\* reference there was keeps its symbol, and the set of every other symbol
\* stays as it was.
C23_FastPathKeepsTableEntries ==
    /\ [](NoNameNoPrivateProps => this_depth = 0)
    /\ [](NoNameNoPrivateProps =>
             \A n \in 1..Len(ast) : InsideContext(n) => visit_depth[n] = -1)
    /\ [][(NoNameNoPrivateProps /\ initializer' # 0) =>
             /\ SubSeq(references', 1, Len(references)) = references
             /\ \A s \in 1..ShadowSymbol :
                   resolved_references'[s] = resolved_references[s]
             /\ SubSeq(symbol_names', 1, Len(symbol_names)) = symbol_names
             /\ Len(symbol_names') <= ShadowSymbol + 1
             /\ \A rid \in (Len(references) + 1)..Len(references') :
                   /\ references'[rid].symbol_id = ShadowSymbol + 1
                   /\ Count(resolved_references'[ShadowSymbol + 1], rid) = 1]_vars

\* The traversal of such a class is over: it met a function and left its body
\* unvisited, and it replaced a `this` by a read of the temp var.
C23_Witness ==
    /\ NoNameNoPrivateProps
    /\ initializer # 0
    /\ agenda = <<>>
    /\ \E fn, n \in 1..Len(ast) :
          /\ ast[fn].kind = "Function"
          /\ visit_depth[fn] = 0
          /\ ast[n].parent = fn
          /\ visit_depth[n] = -1
    /\ \E n \in 1..Len(ast) : ast[n].kind = "TempVarRead"
    /\ Len(symbol_names) = ShadowSymbol + 1

----------------------------------------------------------------------------
(* The rule as a reader of the tables.                                      *)

\* The rule's verdict on reference r, taken alone: an enclosing Function, a
\* binding, and a parent of the function that spans the declaration.
Offends(r) ==
    /\ get_function(nodes, r) # 0
    /\ SymbolOf(r) # 0
    /\ walk_parents(nodes, get_function(nodes, r), span(nodes, DeclarationOf(r)))

\* C24: a run of the rule on a node leaves the tree, the scopes and the
\* symbols as they are and only adds diagnostics; and a diagnostic does not
\* stop the analysis: once the rule has run on the program, every reference
\* that offends has its diagnostic, whatever was emitted before it.
C24_RuleOnlyEmitsDiagnostics ==
    /\ [][cursor' # cursor =>
             /\ nodes' = nodes
             /\ symbols' = symbols
             /\ vars' = vars
             /\ Len(diagnostics') >= Len(diagnostics)
             /\ SubSeq(diagnostics', 1, Len(diagnostics)) = diagnostics]_state
    /\ [](Linted =>
             \A r \in IdentifierNodes :
                Offends(r) <=> \E k \in 1..Len(diagnostics) : diagnostics[k].node = r)

\* The rule emitted a diagnostic and went on to emit another.
C24_Witness ==
    /\ Linted
    /\ Len(diagnostics) >= 2
    /\ diagnostics[1].node < diagnostics[2].node

----------------------------------------------------------------------------
(* The two upward walks of the rule.                                        *)

NoRepeat(seq) == \A j, k \in 1..Len(seq) : seq[j] = seq[k] => j = k

Last(seq) == seq[Len(seq)]

\* The ancestors of n, n included, of kind Function.
FunctionsAround(n) ==
    {a \in AncestorsOrSelf(nodes, n) : nodes[a].kind = "Function"}

\* C26: for every reference of the tree both walks end.  get_function visits
\* no node twice and returns the innermost Function among the node and its
\* ancestors, or none after the root; the walk from that function visits no
\* node twice and stops at the first ancestor that spans the declaration or
\* at the Program, and finds an offence only in the first case.
C26_UpwardWalksTerminate ==
    \A r \in IdentifierNodes :
       LET fn == get_function(nodes, r)
           up == get_function_visits(nodes, r)
       IN /\ NoRepeat(up)
          /\ Range(up) \subseteq AncestorsOrSelf(nodes, r)
          /\ IF FunctionsAround(r) = {}
             THEN fn = 0 /\ nodes[Last(up)].parent = 0
             ELSE /\ fn \in FunctionsAround(r)
                  /\ \A a \in FunctionsAround(r) : a <= fn
                  /\ Last(up) = fn
          /\ (fn # 0 /\ SymbolOf(r) # 0) =>
                LET decl == span(nodes, DeclarationOf(r))
                    walk == walk_parents_visits(nodes, fn, decl)
                    Stops(a) == \/ nodes[a].kind = "Program"
                                \/ SpanContains(span(nodes, a), decl)
                IN /\ NoRepeat(walk)
                   /\ Range(walk) \subseteq ProperAncestors(fn)
                   /\ walk # <<>>
                   /\ \A k \in 1..(Len(walk) - 1) : ~Stops(walk[k])
                   /\ Stops(Last(walk))
                   /\ walk_parents(nodes, fn, decl) <=>
                         nodes[Last(walk)].kind # "Program"

\* A reference inside a function, whose walk passes a parent that does not
\* span the declaration and stops at one that does.
C26_Witness ==
    \E r \in IdentifierNodes :
       /\ get_function(nodes, r) # 0
       /\ SymbolOf(r) # 0
       /\ Len(get_function_visits(nodes, r)) >= 2
       /\ Len(walk_parents_visits(nodes, get_function(nodes, r),
                                  span(nodes, DeclarationOf(r)))) >= 2
       /\ walk_parents(nodes, get_function(nodes, r), span(nodes, DeclarationOf(r)))

----------------------------------------------------------------------------
(* What a redirect does to the tables.                                      *)

\* The number of (symbol, reference) registrations over the first k symbols.
RECURSIVE RegistrationsUpTo(_)
RegistrationsUpTo(k) ==
    IF k = 0 THEN 0 ELSE Len(resolved_references[k]) + RegistrationsUpTo(k - 1)

Registrations == RegistrationsUpTo(Len(resolved_references))

\* The registration that a redirect has deleted and not yet added again.
Unregistered == IF redirect.pc = "add_resolved_reference" THEN 1 ELSE 0

RedirectStep == redirect.pc # "none" \/ redirect'.pc # "none"

\* A step of transform_static_initializer: the tree has been handed over.
RewriteStep == initializer' # 0

\* C27: a step of the rewrite changes the stored symbol id of a reference
\* only if the reference resolved to the class name, and then to the temp
\* symbol; it leaves the list of resolved references of every symbol but the
\* class name and the temp symbol as it was; and a redirect deletes one
\* registration and adds one, so that there are as many registrations after
\* it as before it.
C27_RedirectTouchesClassNameOnly ==
    [][RewriteStep =>
          /\ \A rid \in 1..Len(references) :
                /\ rid \in 1..Len(references')
                /\ references'[rid].symbol_id # references[rid].symbol_id =>
                      /\ class_bindings.name # 0
                      /\ references[rid].symbol_id = class_bindings.name
                      /\ references'[rid].symbol_id \in TempSymbols'
          /\ \A s \in 1..Len(resolved_references) :
                (s # class_bindings.name /\ s \notin TempSymbols') =>
                   resolved_references'[s] = resolved_references[s]
          /\ RedirectStep =>
                Registrations' + Unregistered' = Registrations + Unregistered]_state

\* A redirect has been completed in a table where a reference to another
\* symbol is registered.
C27_Witness ==
    /\ redirect.pc = "none"
    /\ \E rid \in 1..Len(references) :
          /\ references[rid].symbol_id \in TempSymbols
          /\ \E n \in ClassNameReferences : ast[n].reference_id = rid
    /\ \E rid \in 1..Len(references) :
          /\ references[rid].symbol_id = ShadowSymbol
          /\ Count(resolved_references[ShadowSymbol], rid) = 1

----------------------------------------------------------------------------
(* The traversal of the transform and the traversal that enters every       *)
(* context.                                                                 *)

\* Both traversals of the initializers of the class have ended.
Compared == full /\ AllTransformed

\* The nodes that the traversal of a class with no name and no private props
\* does not reach: they lie in a context with its own `this`.
InSkippedContext(n) == StructuralDepth(n) > 0

\* C28, as stated: for a class with no name and no private props, the
\* traversal that enters every context with this_depth incremented ends with
\* the tree and the tables that the traversal of the transform ended with.
C28_FastPathSameAsFullTraversal ==
    (Compared /\ NoNameNoPrivateProps) => Tables = fast

\* C28, amended: for a class with no name and no private props whose nested
\* contexts hold no private field, the traversal that enters every context
\* with this_depth incremented ends with the tree and the tables that the
\* traversal of the transform ended with.
C28_FastPathSameButForPrivateFields ==
    (/\ Compared
     /\ NoNameNoPrivateProps
     /\ \A n \in 1..Len(ast) :
           OriginalKind(n) = "PrivateFieldExpression" => ~InSkippedContext(n))
        => Tables = fast

\* Both traversals have rewritten a `this` of the initializer and left one
\* in a nested context as it was, the second after visiting it.
C28_Witness ==
    /\ Compared
    /\ NoNameNoPrivateProps
    /\ Tables = fast
    /\ fast # original
    /\ \E n \in ThisNodes :
          /\ InSkippedContext(n)
          /\ visit_depth[n] > 0
          /\ ast[n].kind = "ThisExpression"

----------------------------------------------------------------------------
(* The names of the identifiers.                                            *)

\* The reference of identifier n no longer resolves to the symbol the
\* semantic pass resolved it to.
Redirected(n) == references[ast[n].reference_id].symbol_id # ast[n].binding

\* C29: once transform_static_initializer has returned, every identifier of
\* the initializer whose reference was redirected has the name of the temp
\* binding, which is the name of the symbol its reference resolves to; every
\* other identifier has the name it had, and its reference resolves to the
\* symbol it resolved to.
C29_RedirectedIdentifierRenamed ==
    \A n \in IdentifierReferences :
        Finished(RootOf(n)) =>
            LET s == references[ast[n].reference_id].symbol_id
            IN IF Redirected(n)
               THEN /\ s = TempBindingOfClass
                    /\ ast[n].name = GenerateUid(s)
                    /\ ast[n].name = symbol_names[s]
                    /\ ast[n].name # NodeRec("IdentifierReference", 0, "child", 0).name
               ELSE ast[n].name = NodeRec("IdentifierReference", 0, "child", 0).name

\* A finished initializer holds an identifier that was redirected and one
\* that was not.
C29_Witness ==
    \E n, m \in IdentifierReferences :
        /\ RootOf(n) = RootOf(m)
        /\ Finished(RootOf(n))
        /\ Redirected(n)
        /\ ast[m].binding = ShadowSymbol
        /\ ~Redirected(m)

====
